---- MODULE Spec2Model ----
(***************************************************************************)
(* celery.beat: the periodic task scheduler (ScheduleEntry, Scheduler) and *)
(* the ClockService that owns the shelve store and drives the tick loop.   *)
(*                                                                         *)
(* One service thread runs ClockService.start(); a controlling thread      *)
(* calls ClockService.stop(wait); the task registry is a shared dictionary *)
(* other code may change while the service runs.                           *)
(***************************************************************************)
EXTENDS Integers, Sequences, FiniteSets, TLC

\* ------------------------------------------------------------------ bounds

\* Task names that may appear in the registry and in the store.
Names == {"a", "b"}

\* The clock (datetime.now()) runs from 0 to MaxTime, one unit per sleep of
\* the loop; a pass starts only while the clock is below MaxTime.
MaxTime == 2

\* A due-predicate reports None or a number of seconds in 0..MaxSecs.
MaxSecs == 3

\* total_run_count of an entry persisted by an earlier run of the service.
PersistedRuns == 1

\* ClockService.max_interval (conf.CELERYBEAT_MAX_LOOP_INTERVAL).
max_interval == 2

\* ----------------------------------------------------------------- helpers

Min(S) == CHOOSE x \in S : \A y \in S : x <= y

EmptyMap == [n \in {} |-> 0]

\* dict[k] = v
Put(d, k, v) == [x \in (DOMAIN d) \cup {k} |-> IF x = k THEN v ELSE d[x]]

\* dict.pop(k, None) for every k in ks
Without(d, ks) == [x \in (DOMAIN d) \ ks |-> d[x]]

\* dict.values()
Values(d) == {d[k] : k \in DOMAIN d}

\* An optional number: {} is None, {k} is the number k.
NoneVal == {}
NtrValues == {NoneVal} \cup {{k} : k \in 0..MaxSecs}

\* Python truth of an optional number: None and 0 are false.
Truthy(x) == x # NoneVal /\ x # {0}

\* Registry contents per name: not registered, a PeriodicTask, a plain Task.
Kinds == {"none", "periodic", "plain"}

\* `name in registry`
InRegistry(reg, n) == reg[n] # "none"

\* registry.get_all_periodic().keys()
get_all_periodic(reg) == {n \in Names : reg[n] = "periodic"}

\* -------------------------------------------------------- ScheduleEntry

\* ScheduleEntry(name, last_run_at, total_run_count)
ScheduleEntry(name, last_run_at, total_run_count) ==
    [name |-> name, last_run_at |-> last_run_at,
     total_run_count |-> total_run_count]

\* ScheduleEntry(name): last_run_at = datetime.now(), total_run_count = 0
NewEntry(name, t) == ScheduleEntry(name, t, 0)

EntryNext_CountReset(e, t) == ScheduleEntry(e.name, t, 1)

EntryNext_NoIncrement(e, t) ==
    ScheduleEntry(e.name, t, e.total_run_count)

\* ScheduleEntry.next()
EntryNext(e, t) == ScheduleEntry(e.name, t, e.total_run_count + 1)

NoEntry == ScheduleEntry("", 0, 0)

\* No entry is being processed.
NoCur == [entry |-> NoEntry, ntr |-> NoneVal]

\* ------------------------------------------------------------- Scheduler

cleanup_DropsNonPeriodic(s, reg) ==
    Without(s, {n \in DOMAIN s : n \notin get_all_periodic(reg)})

\* Scheduler.cleanup(): drop the entries whose name is not in the registry.
cleanup(s, reg) == Without(s, {n \in DOMAIN s : ~InRegistry(reg, n)})

schedule_registry_Overwrites(s, reg, t) ==
    [n \in (DOMAIN s) \cup get_all_periodic(reg) |->
        IF n \in get_all_periodic(reg) THEN NewEntry(n, t) ELSE s[n]]

\* Scheduler.schedule_registry(): setdefault a fresh entry per periodic task.
schedule_registry(s, reg, t) ==
    [n \in (DOMAIN s) \cup get_all_periodic(reg) |->
        IF n \in DOMAIN s THEN s[n] ELSE NewEntry(n, t)]

Collect_NotDueOnly(rt, due, ntr) ==
    IF ~due /\ Truthy(ntr) THEN rt \cup ntr ELSE rt

\* tick(), lines 104-105: `if next_time_to_run: remaining_times.append(..)`,
\* run for every entry whose evaluation did not raise, due or not.
Collect(rt, due, ntr) == IF Truthy(ntr) THEN rt \cup ntr ELSE rt

TickReturn_NoCeiling(rt) == IF rt = {} THEN max_interval ELSE Min(rt)

EntryIsDue_Always(answers, n) == TRUE

\* tick(), line 98: `if is_due`, on the answer the task gave for this entry.
EntryIsDue(answers, n) == answers[n]

\* tick(), line 107: min(remaining_times + [self.max_interval])
TickReturn(rt) == Min(rt \cup {max_interval})

\* ------------------------------------------------------------------ state

VARIABLES
    registry,         \* registry.tasks: name -> kind
    disk,             \* what the store file holds: name -> ScheduleEntry
    schedule,         \* the open shelf as the scheduler sees it
    store,            \* "unopened", "open", "closed"
    now,              \* datetime.now()
    pc,               \* where the service thread is in start()
    stopStep,         \* where it is inside _stop(): "none" outside
    pending,          \* entries of schedule.values() the pass has not reached
    dueAt,            \* name -> is_due answer of the running/last pass
    cur,              \* the entry being processed and its next_time_to_run
    remaining_times,  \* tick()'s remaining_times
    interval,         \* what the last returned tick() returned (0: none yet)
    exc,              \* the exception propagating in start(), "none" if none
    cause,            \* why the loop was left, "none" while it runs
    synced,           \* synced[0]
    shutdown,         \* self._shutdown
    stopped,          \* self._stopped
    caller,           \* the thread that calls stop()
    dispatched,       \* name -> task.apply_async() calls in the running/last pass
    seen,             \* name -> next_time_to_run reported in the running/last pass
    stopLog,          \* store operations and notifications of _stop(), in order
    late,             \* periodic tasks that had no entry when the pass began
    prev              \* the schedule the previous service held when it was
                      \* stopped with stop(wait=True), kept until the next
                      \* service enters its loop; empty otherwise

vars == <<registry, disk, schedule, store, now, pc, stopStep, pending, dueAt,
          cur, remaining_times, interval, exc, cause, synced, shutdown,
          stopped, caller, dispatched, seen, stopLog, late, prev>>

svcVars == <<schedule, store, pc, stopStep, pending, dueAt, cur,
             remaining_times, interval, exc, cause, synced, stopped,
             dispatched, seen, stopLog, disk, now, late, prev>>

tickVars == <<pending, dueAt, cur, remaining_times, dispatched, seen, late>>

\* A store file left by an earlier run: any set of names, each with a run
\* history.
PersistedSchedules ==
    UNION {[S -> {ScheduleEntry(n, 0, PersistedRuns) : n \in S}] : S \in SUBSET Names}

WellKeyed(s) == \A n \in DOMAIN s : s[n].name = n

Init ==
    /\ registry \in [Names -> Kinds]
    /\ disk \in {s \in PersistedSchedules : WellKeyed(s)}
    /\ schedule = EmptyMap
    /\ store = "unopened"
    /\ now = 0
    /\ pc = "idle"
    /\ stopStep = "none"
    /\ pending = {}
    /\ dueAt = EmptyMap
    /\ cur = NoCur
    /\ remaining_times = {}
    /\ interval = 0
    /\ exc = "none"
    /\ cause = "none"
    /\ synced = FALSE
    /\ shutdown = FALSE
    /\ stopped = FALSE
    /\ caller = "idle"
    /\ dispatched = [n \in Names |-> 0]
    /\ seen = EmptyMap
    /\ stopLog = <<>>
    /\ late = {}
    /\ prev = EmptyMap

\* ------------------------------------------------------- ClockService.start

Load_Fresh(d) == EmptyMap

\* shelve.open(filename): the shelf shows what the file holds.
Load(d) == d

\* start(), line 169: shelve.open(); a failure propagates out of start().
Start ==
    /\ pc = "idle"
    /\ \/ /\ store' = "open"
          /\ schedule' = Load(disk)
          /\ pc' = "init"
          /\ exc' = exc
       \/ /\ exc' = "IOError"
          /\ pc' = "exited"
          /\ UNCHANGED <<store, schedule>>
    /\ UNCHANGED <<registry, disk, now, stopStep, tickVars, interval, cause,
                   synced, shutdown, stopped, caller, stopLog,
                   prev>>

\* start(), lines 171-174: Scheduler.__init__ runs cleanup() then
\* schedule_registry() on the open shelf. Reading the shelf may fail; the
\* call is outside the try, so the failure propagates out of start().
SchedulerInit ==
    /\ pc = "init"
    /\ \/ /\ schedule' =
                 schedule_registry(cleanup(schedule, registry), registry, now)
          /\ pc' = "loop"
          /\ exc' = exc
       \/ /\ exc' = "IOError"
          /\ pc' = "exited"
          /\ schedule' = schedule
    /\ UNCHANGED <<registry, disk, store, now, stopStep, tickVars, interval,
                   cause, synced, shutdown, stopped, caller, stopLog,
                   prev>>

\* start(), lines 193-195: `if self._shutdown.isSet(): break`.
LoopCheck ==
    /\ pc = "loop"
    /\ \/ /\ shutdown
          /\ pc' = "finally"
          /\ cause' = "shutdown"
       \/ /\ ~shutdown
          /\ now < MaxTime
          /\ pc' = "call_tick"
          /\ cause' = cause
    /\ prev' = EmptyMap
    /\ UNCHANGED <<registry, disk, schedule, store, now, stopStep, tickVars,
                   interval, exc, synced, shutdown, stopped, caller, stopLog>>

\* start(), line 196, tick() lines 95-96: the pass begins and takes
\* self.schedule.values() (a list built before the loop body runs). The
\* is_due answer each task gives during this pass is fixed here.
TickBegin ==
    /\ pc = "call_tick"
    /\ pending' = Values(schedule)
    /\ dueAt' \in [DOMAIN schedule -> BOOLEAN]
    /\ remaining_times' = {}
    /\ dispatched' = [n \in Names |-> 0]
    /\ seen' = EmptyMap
    /\ cur' = NoCur
    /\ late' = get_all_periodic(registry) \ DOMAIN schedule
    /\ pc' = "tick"
    /\ cause' = cause
    /\ UNCHANGED <<registry, disk, schedule, store, now, stopStep, interval,
                   exc, synced, shutdown, stopped, caller, stopLog, prev>>

\* The locals of a tick() call, and what the model records about the pass,
\* are gone once the statement after the call runs.
DropFrame ==
    /\ pending' = {}
    /\ dueAt' = EmptyMap
    /\ cur' = NoCur
    /\ remaining_times' = {}
    /\ dispatched' = [n \in Names |-> 0]
    /\ seen' = EmptyMap
    /\ late' = {}

\* An exception leaves tick() and the while loop; start() has no handler for
\* it, so the finally clause runs next.
Raise(kind) ==
    /\ exc' = kind
    /\ cause' = kind
    /\ pc' = "finally"

\* tick(), lines 96-98 and 104-105 for the next entry of the list, and line
\* 107 when the list is exhausted. is_due() looks the task up (get_task
\* raises NotRegistered) and asks it; a plain Task has no is_due. A due entry
\* goes on to apply_async().
TickEntry ==
    /\ pc = "tick"
    /\ \/ /\ pending = {}
          /\ interval' = TickReturn(remaining_times)
          /\ pc' = "sleep"
          /\ UNCHANGED <<tickVars, exc, cause>>
       \/ \E e \in pending :
            /\ pending' = pending \ {e}
            /\ interval' = interval
            /\ \/ /\ ~InRegistry(registry, e.name)
                  /\ Raise("NotRegistered")
                  /\ cur' = [entry |-> e, ntr |-> NoneVal]
                  /\ UNCHANGED <<remaining_times, seen>>
               \/ /\ registry[e.name] = "plain"
                  /\ Raise("AttributeError")
                  /\ cur' = [entry |-> e, ntr |-> NoneVal]
                  /\ UNCHANGED <<remaining_times, seen>>
               \/ /\ registry[e.name] = "periodic"
                  /\ \E ntr \in NtrValues :
                       /\ cur' = [entry |-> e, ntr |-> ntr]
                       /\ seen' = Put(seen, e.name, ntr)
                       /\ IF EntryIsDue(dueAt, e.name)
                            THEN /\ pc' = "apply"
                                 /\ remaining_times' = remaining_times
                            ELSE /\ pc' = "tick"
                                 /\ remaining_times' =
                                        Collect(remaining_times, FALSE, ntr)
                  /\ UNCHANGED <<exc, cause>>
            /\ UNCHANGED <<dueAt, dispatched, late>>
    /\ UNCHANGED <<registry, disk, schedule, store, now, stopStep, synced,
                   shutdown, stopped, caller, stopLog,
                   prev>>

\* apply_async(), line 123: the stored entry is replaced by entry.next().
ApplyAdvance ==
    /\ pc = "apply"
    /\ schedule' = Put(schedule, cur.entry.name, EntryNext(cur.entry, now))
    /\ pc' = "dispatch"
    /\ UNCHANGED <<registry, disk, store, now, stopStep, tickVars, interval,
                   exc, cause, synced, shutdown, stopped, caller, stopLog,
                   prev>>

\* apply_async(), lines 124-132, then tick() lines 102-105: get_task, the
\* task's apply_async() (which may raise: SchedulingError), the collection of
\* next_time_to_run.
ApplyDispatch ==
    /\ pc = "dispatch"
    /\ \/ /\ ~InRegistry(registry, cur.entry.name)
          /\ Raise("NotRegistered")
          /\ UNCHANGED <<dispatched, remaining_times>>
       \/ /\ InRegistry(registry, cur.entry.name)
          /\ dispatched' = [dispatched EXCEPT ![cur.entry.name] = @ + 1]
          /\ \/ /\ pc' = "tick"
                /\ remaining_times' = Collect(remaining_times, TRUE, cur.ntr)
                /\ UNCHANGED <<exc, cause>>
             \/ /\ Raise("SchedulingError")
                /\ remaining_times' = remaining_times
    /\ UNCHANGED <<registry, disk, schedule, store, now, stopStep, pending,
                   dueAt, cur, seen, late, interval, synced, shutdown, stopped,
                   caller, stopLog,
                   prev>>

\* start(), line 199: time.sleep(interval); the clock moves while asleep.
Sleep ==
    /\ pc = "sleep"
    /\ pc' = "loop"
    /\ now' = now + 1
    /\ DropFrame
    /\ UNCHANGED <<registry, disk, schedule, store, stopStep,
                   interval, exc, cause, synced, shutdown, stopped, caller,
                   stopLog,
                   prev>>

TryPcs == {"loop", "call_tick", "tick", "apply", "dispatch", "sleep"}

\* start(), line 200: KeyboardInterrupt or SystemExit arrives inside the try.
Interrupt ==
    /\ pc \in TryPcs
    /\ exc' \in {"KeyboardInterrupt", "SystemExit"}
    /\ cause' = "interrupt"
    /\ pc' = "except"
    /\ DropFrame
    /\ prev' = EmptyMap
    /\ UNCHANGED <<registry, disk, schedule, store, now, stopStep,
                   interval, synced, shutdown, stopped, caller, stopLog>>

\* ------------------------------------------------------------- _stop()

\* Where control goes when a _stop() call ends: normally (the except clause
\* has then handled its exception) or by raising.
StopReturns ==
    /\ stopStep' = "none"
    /\ pc' = IF pc = "except" THEN "finally" ELSE "exited"
    /\ exc' = IF pc = "except" THEN "none" ELSE exc

StopRaises(kind) ==
    /\ stopStep' = "none"
    /\ pc' = IF pc = "except" THEN "finally" ELSE "exited"
    /\ exc' = kind

Flush_Lost(d, s) == d

\* schedule.sync(): the file now holds what the shelf holds.
Flush(d, s) == s

StopGuard_Unguarded ==
    /\ pc \in {"except", "finally"}
    /\ stopStep = "none"
    /\ stopStep' = "sync"
    /\ DropFrame
    /\ UNCHANGED <<registry, disk, schedule, store, now, interval, pc, exc,
                   cause, synced, shutdown, stopped, caller, stopLog,
                   prev>>

\* _stop(), line 182: `if not synced[0]`
StopGuard ==
    /\ pc \in {"except", "finally"}
    /\ stopStep = "none"
    /\ IF synced
         THEN StopReturns
         ELSE /\ stopStep' = "sync"
              /\ UNCHANGED <<pc, exc>>
    /\ DropFrame
    /\ UNCHANGED <<registry, disk, schedule, store, now, interval,
                   cause, synced, shutdown, stopped, caller, stopLog,
                   prev>>

\* _stop(), line 184: schedule.sync(), which may fail.
StopSync ==
    /\ stopStep = "sync"
    /\ \/ /\ disk' = Flush(disk, schedule)
          /\ stopLog' = Append(stopLog, "sync")
          /\ stopStep' = "close"
          /\ UNCHANGED <<pc, exc>>
       \/ /\ stopLog' = Append(stopLog, "sync_failed")
          /\ StopRaises("IOError")
          /\ disk' = disk
    /\ UNCHANGED <<registry, schedule, store, now, tickVars, interval, cause,
                   synced, shutdown, stopped, caller, prev>>

\* _stop(), line 185: schedule.close(), which may fail.
StopClose ==
    /\ stopStep = "close"
    /\ \/ /\ store' = "closed"
          /\ stopLog' = Append(stopLog, "close")
          /\ stopStep' = "mark"
          /\ UNCHANGED <<pc, exc>>
       \/ /\ stopLog' = Append(stopLog, "close_failed")
          /\ StopRaises("IOError")
          /\ store' = store
    /\ UNCHANGED <<registry, disk, schedule, now, tickVars, interval, cause,
                   synced, shutdown, stopped, caller, prev>>

\* _stop(), line 186: synced[0] = True
StopMark ==
    /\ stopStep = "mark"
    /\ synced' = TRUE
    /\ stopStep' = "set"
    /\ UNCHANGED <<registry, disk, schedule, store, now, pc, tickVars,
                   interval, exc, cause, shutdown, stopped, caller, stopLog,
                   prev>>

\* _stop(), line 187: self._stopped.set()
StopSet ==
    /\ stopStep = "set"
    /\ stopped' = TRUE
    /\ stopLog' = Append(stopLog, "set")
    /\ StopReturns
    /\ UNCHANGED <<registry, disk, schedule, store, now, tickVars, interval,
                   cause, synced, shutdown, caller, prev>>

\* -------------------------------------------------- ClockService.stop

\* stop(wait), lines 206-207: set the shutdown flag, then wait if asked.
Stop ==
    /\ caller = "idle"
    /\ shutdown' = TRUE
    /\ \E wait \in BOOLEAN :
         caller' = IF wait THEN "waiting" ELSE "returned_nowait"
    /\ UNCHANGED <<registry, svcVars>>

\* stop(wait=True), line 207: self._stopped.wait() returns.
StopWaitReturns ==
    /\ caller = "waiting"
    /\ stopped
    /\ caller' = "returned_wait"
    /\ UNCHANGED <<registry, svcVars, shutdown>>

\* ------------------------------------------------------------- registry

\* Other code registers or unregisters a periodic task; plain tasks stay as
\* they were registered.
RegistryChange ==
    /\ \E n \in Names, k \in {"none", "periodic"} :
         /\ registry[n] # "plain"
         /\ registry[n] # k
         /\ registry' = [registry EXCEPT ![n] = k]
    /\ UNCHANGED <<svcVars, shutdown, caller>>

\* --------------------------------------------------------------- restart

\* The process that ran start() has ended; later a new ClockService is
\* built on the same schedule_filename (ClockService.__init__): new events,
\* nothing in memory, the file as it was left.
Restart ==
    /\ pc = "exited"
    /\ now < MaxTime
    /\ now' = now + 1
    /\ prev' = IF caller = "returned_wait" /\ cause = "shutdown"
                 THEN schedule ELSE EmptyMap
    /\ schedule' = EmptyMap
    /\ store' = "unopened"
    /\ pc' = "idle"
    /\ interval' = 0
    /\ exc' = "none"
    /\ cause' = "none"
    /\ synced' = FALSE
    /\ shutdown' = FALSE
    /\ stopped' = FALSE
    /\ caller' = "idle"
    /\ stopLog' = <<>>
    /\ UNCHANGED <<registry, disk, stopStep, tickVars>>

Next ==
    \/ Start
    \/ SchedulerInit
    \/ LoopCheck
    \/ TickBegin
    \/ TickEntry
    \/ ApplyAdvance
    \/ ApplyDispatch
    \/ Sleep
    \/ Interrupt
    \/ StopGuard
    \/ StopSync
    \/ StopClose
    \/ StopMark
    \/ StopSet
    \/ Stop
    \/ StopWaitReturns
    \/ RegistryChange

Spec == Init /\ [][Next]_vars

\* The same service, restarted on a store that began empty: every entry a
\* later run loads was written by an earlier run of the model.
InitFresh == Init /\ disk = EmptyMap

NextRestart == Next \/ Restart

SpecRestart == InitFresh /\ [][NextRestart]_vars

\* ------------------------------------------------------ claims: vocabulary

\* The pass has returned: start() holds its result and is about to sleep.
PassReturned == pc = "sleep"

\* The pass has just been left by an exception of this kind; the locals of
\* tick() are still those of the failing moment.
PassFailed(kind) == pc = "finally" /\ stopStep = "none" /\ cause = kind

\* The stored entry of the entry being processed is its advanced value.
CurAdvanced ==
    /\ cur.entry.name \in DOMAIN schedule
    /\ schedule[cur.entry.name] =
           ScheduleEntry(cur.entry.name, now, cur.entry.total_run_count + 1)

\* The nonzero remaining times reported in the pass by the entries in ns.
Reported(ns) == UNION {seen[n] : n \in {m \in ns \cap DOMAIN seen : Truthy(seen[m])}}

\* The loop was entered and start() has ended.
StartEnded == pc = "exited" /\ cause # "none"

\* The last three records of the _stop() log.
LogTail == SubSeq(stopLog, Len(stopLog) - 2, Len(stopLog))

\* ------------------------------------------------------------------ claims

\* C1: in tick(), a due entry's stored record is replaced by its advanced
\* value (total_run_count = old + 1, last_run_at = now) before its dispatch
\* is invoked; when the dispatch fails, tick() leaves with SchedulingError
\* and the stored count is old + 1.
C1_AdvanceBeforeDispatch ==
    /\ pc = "dispatch" => CurAdvanced /\ dispatched[cur.entry.name] = 0
    /\ PassFailed("SchedulingError") =>
          /\ exc = "SchedulingError"
          /\ CurAdvanced
          /\ dispatched[cur.entry.name] = 1

C1_Witness ==
    /\ PassFailed("SchedulingError")
    /\ cur.entry.total_run_count = PersistedRuns
    /\ cur.entry.name \in DOMAIN schedule
    /\ schedule[cur.entry.name].total_run_count = PersistedRuns + 1

\* C2: when a pass ends (it returns, or a dispatch of it has failed), every
\* entry that was due in it has been dispatched exactly once and no entry
\* that was not due has been dispatched.
C2_DueDispatchedExactlyOnce ==
    (PassReturned \/ PassFailed("SchedulingError")) =>
        \A n \in DOMAIN dueAt : dispatched[n] = IF dueAt[n] THEN 1 ELSE 0

\* C3 as stated: tick() returns the minimum of max_interval and the
\* remaining times of the entries that were NOT due.
C3_OnlyNotDueCollected ==
    PassReturned =>
        interval = Min({max_interval}
                       \cup Reported({n \in DOMAIN dueAt : ~dueAt[n]}))

\* C3 as amended: tick() returns the minimum of max_interval and the nonzero
\* remaining times reported by ALL entries of the pass, due or not.
C3_AllReportedCollected ==
    PassReturned =>
        /\ DOMAIN seen = DOMAIN dueAt
        /\ interval = Min({max_interval} \cup Reported(DOMAIN dueAt))

C3_Witness ==
    /\ PassReturned
    /\ \E n \in DOMAIN dueAt : dueAt[n] /\ seen[n] = {1}
    /\ interval = 1

\* C4: the interval tick() returns, which the loop then sleeps, never
\* exceeds max_interval.
C4_IntervalAtMostMax == interval <= max_interval

C4_Witness ==
    /\ PassReturned
    /\ \E n \in DOMAIN seen : seen[n] = {MaxSecs}
    /\ interval = max_interval

\* C5: once the stopped-notification is set, the store has been synced and
\* then closed and the file holds what the scheduler last wrote; stop(wait)
\* with wait true returns only then.
C5_StoppedMeansFlushedAndClosed ==
    /\ stopped =>
          /\ store = "closed"
          /\ disk = schedule
          /\ LogTail = <<"sync", "close", "set">>
    /\ caller = "returned_wait" => stopped

C5_Witness ==
    /\ caller = "returned_wait"
    /\ \E n \in DOMAIN disk : disk[n].total_run_count = PersistedRuns + 1

\* C6: however the loop is left, when start() ends the store has been synced
\* exactly once, then closed exactly once, then the stopped-notification
\* raised exactly once, and nothing else was attempted.
C6_FinalizedExactlyOnce ==
    StartEnded => stopLog = <<"sync", "close", "set">>

\* C7: when start() ends after the loop, the stopped-notification has been
\* raised, also when the store's sync or close failed.
C7_StoppedRaisedDespiteStoreFailure == StartEnded => stopped

\* C8: a failure while processing one entry (dispatch failure or missing
\* task) does not end the pass while entries remain to be evaluated.
C8_FailureIsolated ==
    (PassFailed("SchedulingError") \/ PassFailed("NotRegistered")) =>
        pending = {}

\* C9: an entry whose task is absent from the registry never makes the pass
\* abort: the loop is not left because of NotRegistered.
C9_MissingTaskSkipped ==
    pc \notin TryPcs => cause # "NotRegistered"

\* C10: a dispatch failure is not fatal: while SchedulingError is the latest
\* outcome, the service is still inside its loop.
C10_DispatchFailureNotFatal ==
    exc = "SchedulingError" => pc \in TryPcs

\* The step in which Scheduler.__init__ returns: cleanup() and then
\* schedule_registry() have run on the schedule loaded from the store.
Constructed == pc = "init" /\ pc' = "loop"

\* C11: schedule_registry() gives every periodic task of the registry that
\* has no entry exactly one fresh entry with total_run_count 0, leaves every
\* entry that exists unchanged, and run again on its own result (at any
\* time) changes nothing.
C11_ReconcileAddsMissingKeepsExisting ==
    [][Constructed =>
          LET kept == cleanup(schedule, registry)
              missing == get_all_periodic(registry) \ DOMAIN kept
          IN  /\ DOMAIN schedule' = DOMAIN kept \cup missing
              /\ \A n \in DOMAIN kept : schedule'[n] = kept[n]
              /\ \A n \in missing :
                    /\ schedule'[n].name = n
                    /\ schedule'[n].total_run_count = 0
              /\ \A t \in 0..MaxTime :
                    schedule_registry(schedule', registry, t) = schedule'
      ]_vars

\* The scheduler has just been built from a store that held an entry with
\* runs on record for one task and nothing for another periodic task.
C11_Witness ==
    /\ pc = "loop"
    /\ interval = 0
    /\ \E n \in DOMAIN schedule \cap DOMAIN disk :
          schedule[n].total_run_count > 0
    /\ \E m \in DOMAIN schedule \ DOMAIN disk :
          schedule[m].total_run_count = 0

\* C12: cleanup() removes every entry whose name is not in the registry,
\* leaves every entry whose name is in it unchanged, and a second call right
\* after the first changes nothing.
C12_PruneRemovesUnregisteredOnly ==
    [][Constructed =>
          /\ \A n \in DOMAIN schedule :
                IF InRegistry(registry, n)
                THEN n \in DOMAIN schedule' /\ schedule'[n] = schedule[n]
                ELSE n \notin DOMAIN schedule'
          /\ cleanup(cleanup(schedule, registry), registry)
                = cleanup(schedule, registry)
      ]_vars

\* The scheduler has just been built from a store that held an entry for a
\* task no longer registered (now gone) and one for a registered task (kept).
C12_Witness ==
    /\ pc = "loop"
    /\ interval = 0
    /\ DOMAIN disk \ DOMAIN schedule # {}
    /\ DOMAIN disk \cap DOMAIN schedule # {}

\* The step is apply_async()'s replacement of the stored entry of task n,
\* one per dispatch attempt.
Advances(n) == pc = "apply" /\ pc' = "dispatch" /\ cur.entry.name = n

C14_HistorySurvivesRestart ==
    [][Constructed =>
          \A n \in DOMAIN prev :
              InRegistry(registry, n) =>
                  n \in DOMAIN schedule' /\ schedule'[n] = prev[n]
      ]_vars

\* A restarted service has built its Scheduler and holds, for a task the
\* stopped service had run, the entry that service held.
C14_Witness ==
    /\ pc = "loop"
    /\ \E n \in DOMAIN prev \cap DOMAIN schedule :
          /\ prev[n].total_run_count > 0
          /\ schedule[n] = prev[n]

\* C15: a periodic task registered while the service runs is known to the
\* scheduler after the next pass: when a pass returns, every task that was
\* periodic in the registry and had no entry when the pass began, and is
\* still registered as periodic, has an entry in the schedule.
C15_NewTaskKnownAfterNextTick ==
    PassReturned =>
        \A n \in late : registry[n] = "periodic" => n \in DOMAIN schedule

\* C16: the shutdown flag is read once per loop iteration, before tick().
\* The flag, once set, stays set; a loop head that finds it set starts no
\* tick and leaves the loop, so the only tick that can start after stop()
\* is the one whose check had already passed; once the flag has been seen
\* no pass is running; and when start() ends after the flag was seen, the
\* stopped-notification has been raised.
C16_FlagSeenThenStopped ==
    [][/\ shutdown => shutdown'
       /\ (pc = "loop" /\ shutdown) => pc' \in {"loop", "finally", "except"}
       /\ (pc' = "tick" /\ pc # "tick") =>
              pc \in {"call_tick", "dispatch"}
       /\ cause' = "shutdown" => pc' \in {"finally", "exited"}
       /\ (pc' = "exited" /\ cause' = "shutdown") => stopped'
      ]_vars

\* C17: Stopped is terminal. Once the stopped-notification has been raised
\* it stays raised, the service thread is in no part of the loop (no pass
\* begins or continues), and neither the schedule, nor the store file, nor
\* the store's open/closed state changes, nor is sync or close attempted
\* again.
C17_StoppedIsTerminal ==
    [][stopped =>
          /\ stopped'
          /\ pc' \notin TryPcs \cup {"idle", "init"}
          /\ UNCHANGED <<schedule, disk, store, stopLog>>
      ]_vars

\* The notification was raised from the except clause; the finally clause
\* has since run _stop() again, and start() has returned.
C17_Witness ==
    /\ stopped
    /\ cause = "interrupt"
    /\ pc = "exited"

\* C18: right after a Scheduler is constructed (cleanup, then
\* schedule_registry), the names in the schedule are exactly the periodic
\* task names of the registry, whatever the store held and whatever the
\* registry holds.
C18_ConstructedKeysArePeriodicTasks ==
    [][Constructed => DOMAIN schedule' = get_all_periodic(registry)]_vars

\* C19: every way start() can end raises the stopped-notification, so that
\* stop(wait=True) returns: when start() has ended (normally, or by failing
\* to open the store, or by failing to construct the Scheduler), the
\* stopped-notification is set.
C19_EveryExitRaisesStopped == pc = "exited" => stopped

\* The service thread is inside a call of tick().
InTick == pc \in {"call_tick", "tick", "apply", "dispatch"}

\* C20: no step of tick() adds or removes a schedule key; the only entries a
\* step of tick() changes are entries the pass found due, each replaced by
\* its advance (same name, last_run_at = now, total_run_count + 1); the
\* entry of a task that is not due keeps its last_run_at and
\* total_run_count.
C20_TickWritesOnlyDueAdvances ==
    [][InTick =>
          /\ DOMAIN schedule' = DOMAIN schedule
          /\ \A n \in DOMAIN schedule :
                schedule'[n] # schedule[n] =>
                    /\ n \in DOMAIN dueAt
                    /\ dueAt[n]
                    /\ schedule'[n] =
                         ScheduleEntry(n, now,
                                       schedule[n].total_run_count + 1)
      ]_vars

\* A pass has returned in which one entry was evaluated and found not due
\* and another was found due and dispatched.
C20_Witness ==
    /\ PassReturned
    /\ \E n \in DOMAIN dueAt \cap DOMAIN seen : ~dueAt[n]
    /\ \E m \in DOMAIN dueAt : dueAt[m] /\ dispatched[m] = 1

====
